---- MODULE Spec2Model ----
(***************************************************************************)
(* Model of the user CRUD service of main.go: five gin handlers over one   *)
(* relational table users(id, name, email) reached through GORM.           *)
(*                                                                         *)
(* The table is the sequence of its rows in physical (heap) order; the     *)
(* PostgreSQL sequence behind the auto-increment primary key is the        *)
(* counter seq.  Storage is assumed reachable: connection failures are not *)
(* modelled, every storage error in the model is a constraint violation, a *)
(* malformed condition or a missing record.                                *)
(*                                                                         *)
(* Spec     : requests are served one after the other, one action per      *)
(*            handler.                                                     *)
(* ConcSpec : two requests are in flight; a PUT or a DELETE is two storage *)
(*            steps (fetch, write) that interleave with the other request. *)
(***************************************************************************)
EXTENDS Integers, Sequences, FiniteSets, TLC

VARIABLES users, seq, req, resp, prev, created, pure, inflight

vars == <<users, seq, req, resp, prev, created, pure, inflight>>

----------------------------------------------------------------------------
(* Bounds *)

MaxId == 2

MaxSeq == 2

----------------------------------------------------------------------------
(* Values *)

Names == {"a"}

Emails == {"x"}

Fields == {"id", "name", "email"}

ZeroUser == [id |-> 0, name |-> "", email |-> ""]

Itoa(n) ==
    CASE n = 0 -> "0" [] n = 1 -> "1" [] n = 2 -> "2" [] n = 3 -> "3"
      [] n = 4 -> "4" [] n = 5 -> "5" [] n = 6 -> "6" [] OTHER -> "7"

IsNum(s) == \E n \in 0..7 : Itoa(n) = s

Atoi(s) == CHOOSE n \in 0..7 : Itoa(n) = s

(* Path parameters that are not numbers: GORM hands them to the database   *)
(* as the WHERE condition itself.  "1=1" holds of every row, "abc" is not  *)
(* a valid condition and makes the query fail.                             *)
Tautologies == {"1=1"}

PathParams == {Itoa(n) : n \in 1..MaxId} \cup Tautologies \cup {"abc"}

(* A request body: ok is FALSE for a body that does not bind (syntax       *)
(* error, wrong type, empty); fields are the JSON keys present.            *)
NoBody == [ok |-> FALSE, fields |-> {}, id |-> 0, name |-> "", email |-> ""]

Bodies ==
    {NoBody} \cup
    {b \in [ok : {TRUE}, fields : SUBSET Fields, id : 0..MaxId,
            name : Names \cup {""}, email : Emails \cup {""}] :
        /\ ("id" \notin b.fields => b.id = 0)
        /\ ("name" \notin b.fields <=> b.name = "")
        /\ ("email" \notin b.fields <=> b.email = "")}

----------------------------------------------------------------------------
(* JSON binding: keys present in the body overwrite the fields of the      *)
(* destination, absent keys leave them as they are.                        *)

BindJSONZeroing(b, u) ==
    [id    |-> IF "id" \in b.fields THEN b.id ELSE u.id,
     name  |-> b.name,
     email |-> b.email]

BindJSON(b, u) ==
    [id    |-> IF "id" \in b.fields THEN b.id ELSE u.id,
     name  |-> IF "name" \in b.fields THEN b.name ELSE u.name,
     email |-> IF "email" \in b.fields THEN b.email ELSE u.email]

----------------------------------------------------------------------------
(* Storage operations *)

HasId(t, i) == \E k \in 1..Len(t) : t[k].id = i

Lookup(t, i) == t[CHOOSE k \in 1..Len(t) : t[k].id = i]

Rows(t) == {t[k] : k \in 1..Len(t)}

Remove(t, i) == SelectSeq(t, LAMBDA r : r.id # i)

Replace(t, u) == [k \in 1..Len(t) |-> IF t[k].id = u.id THEN u ELSE t[k]]

(* db.Find(&users): every row, in the order the table yields them. *)
FindDropLast(t) == IF Len(t) > 1 THEN SubSeq(t, 1, Len(t) - 1) ELSE t

Find(t) == t

(* db.First(&user, id): a numeric string is the primary key, any other     *)
(* string is the condition; ORDER BY id LIMIT 1.                           *)
FirstIgnoresKey(t, p) ==
    LET idx == IF IsNum(p) \/ p \in Tautologies THEN 1..Len(t) ELSE {}
    IN  IF idx = {} THEN [err |-> TRUE, user |-> ZeroUser]
        ELSE [err |-> FALSE,
              user |-> t[CHOOSE k \in idx : \A j \in idx : t[k].id <= t[j].id]]

First(t, p) ==
    LET idx == IF IsNum(p) THEN {k \in 1..Len(t) : t[k].id = Atoi(p)}
               ELSE IF p \in Tautologies THEN 1..Len(t)
               ELSE {}
    IN  IF idx = {} THEN [err |-> TRUE, user |-> ZeroUser]
        ELSE [err |-> FALSE,
              user |-> t[CHOOSE k \in idx : \A j \in idx : t[k].id <= t[j].id]]

(* INSERT of a row with its id: primary key and unique email are checked. *)
InsertDirtyOnError(t, s, u) ==
    IF \E r \in Rows(t) : r.id = u.id \/ r.email = u.email
    THEN [err |-> TRUE, users |-> Append(t, u), seq |-> s, user |-> u]
    ELSE [err |-> FALSE, users |-> Append(t, u), seq |-> s, user |-> u]

Insert(t, s, u) ==
    IF \E r \in Rows(t) : r.id = u.id \/ r.email = u.email
    THEN [err |-> TRUE, users |-> t, seq |-> s, user |-> u]
    ELSE [err |-> FALSE, users |-> Append(t, u), seq |-> s, user |-> u]

(* db.Create(&user): a zero id takes the next value of the sequence (used  *)
(* up even when the insert fails), a non-zero id is inserted as given.     *)
Unassigned(r, u) == IF r.err THEN [r EXCEPT !.user = u] ELSE r

Create(t, s, u) ==
    IF u.id = 0
    THEN Unassigned(Insert(t, s + 1, [u EXCEPT !.id = s + 1]), u)
    ELSE Insert(t, s, u)

(* db.Save(&user): zero id -> Create; otherwise UPDATE of all fields WHERE *)
(* id = user.id, and when no row was affected an INSERT of the row.        *)
Save(t, s, u) ==
    IF u.id = 0 THEN Create(t, s, u)
    ELSE IF HasId(t, u.id)
    THEN IF \E r \in Rows(t) : r.id # u.id /\ r.email = u.email
         THEN [err |-> TRUE, users |-> t, seq |-> s, user |-> u]
         ELSE [err |-> FALSE, users |-> Replace(t, u), seq |-> s,
               user |-> u]
    ELSE Insert(t, s, u)

(* db.Delete(&user): DELETE WHERE id = user.id. *)
DeleteKeepsRow(t, u) == [err |-> FALSE, users |-> t]

Delete(t, u) == [err |-> FALSE, users |-> Remove(t, u.id)]

----------------------------------------------------------------------------
(* Requests and responses *)

Request(op, p, b) == [op |-> op, id |-> p, body |-> b]

Response(status, u, us) == [status |-> status, user |-> u, users |-> us]

NoRequest == Request("none", "", NoBody)

NoResponse == Response(0, ZeroUser, <<>>)

(* What a GET by id is specified against: the outcome of the request just *)
(* before it when that was a create answering 201 or a delete answering    *)
(* 200; nothing for any other pair of requests.                            *)
Summary(rq, rs, next) ==
    IF /\ next.op = "getUser"
       /\ \/ rq.op = "createUser" /\ rs.status = 201
          \/ rq.op = "deleteUser" /\ rs.status = 200
    THEN [op |-> rq.op, id |-> rq.id, user |-> rs.user]
    ELSE [op |-> "none", id |-> "", user |-> ZeroUser]

Init ==
    /\ users = <<>>
    /\ seq = 0
    /\ req = NoRequest
    /\ resp = NoResponse
    /\ prev = Summary(NoRequest, NoResponse, NoRequest)
    /\ created = <<>>
    /\ pure = TRUE
    /\ inflight = [w \in {1, 2} |->
                     [pc |-> "idle", op |-> "none", id |-> "", body |-> NoBody,
                      user |-> ZeroUser, status |-> 0, stale |-> FALSE]]

(* History kept for the properties: the request before a GET by id, and   *)
(* the creates that succeeded while nothing else wrote to the table.       *)
Served(rq, rs) ==
    /\ req' = rq
    /\ resp' = rs
    /\ prev' = Summary(req, resp, rq)
    /\ UNCHANGED inflight

Reads == UNCHANGED <<users, seq, created, pure>>

Impure == pure' = FALSE /\ created' = <<>>

----------------------------------------------------------------------------
(* Handlers, one request at a time *)

getUsers ==
    /\ Served(Request("getUsers", "", NoBody), Response(200, ZeroUser, Find(users)))
    /\ Reads

getUser ==
    \E p \in PathParams :
        \E f \in {First(users, p)} :
            /\ Served(Request("getUser", p, NoBody),
                      IF f.err THEN Response(404, ZeroUser, <<>>)
                      ELSE Response(200, f.user, <<>>))
            /\ Reads

createUser ==
    \E b \in Bodies :
        \E rq \in {Request("createUser", "", b)}, u \in {BindJSON(b, ZeroUser)} :
            IF ~b.ok
            THEN Served(rq, Response(400, ZeroUser, <<>>)) /\ Reads
            ELSE \E c \in {Create(users, seq, u)} :
                 /\ c.seq <= MaxSeq
                 /\ seq' = c.seq
                 /\ users' = c.users
                 /\ IF c.err
                    THEN /\ Served(rq, Response(500, ZeroUser, <<>>))
                         /\ UNCHANGED <<created, pure>>
                    ELSE /\ Served(rq, Response(201, c.user, <<>>))
                         /\ pure' = pure
                         /\ created' = IF pure
                                       THEN Append(created,
                                                   [name |-> u.name, email |-> u.email])
                                       ELSE created

(* The second half of updateUser: bind the body onto the fetched record    *)
(* and save it.                                                            *)
Saved(r) ==
    [status |-> IF r.err THEN 500 ELSE 200, users |-> r.users, seq |-> r.seq,
     user |-> IF r.err THEN ZeroUser ELSE r.user]

BindAndSaveRechecked(t, s, b, fetched) ==
    IF fetched \notin Rows(t)
    THEN [status |-> 404, users |-> t, seq |-> s, user |-> ZeroUser]
    ELSE IF ~b.ok
    THEN [status |-> 400, users |-> t, seq |-> s, user |-> ZeroUser]
    ELSE Saved(Save(t, s, BindJSON(b, fetched)))

BindAndSave(t, s, b, fetched) ==
    IF ~b.ok
    THEN [status |-> 400, users |-> t, seq |-> s, user |-> ZeroUser]
    ELSE Saved(Save(t, s, BindJSON(b, fetched)))

updateUser ==
    \E p \in PathParams, b \in Bodies :
        \E rq \in {Request("updateUser", p, b)}, f \in {First(users, p)} :
            IF f.err
            THEN Served(rq, Response(404, ZeroUser, <<>>)) /\ Reads
            ELSE \E s \in {BindAndSave(users, seq, b, f.user)} :
                 /\ s.seq <= MaxSeq
                 /\ Served(rq, Response(s.status, s.user, <<>>))
                 /\ seq' = s.seq
                 /\ users' = s.users
                 /\ IF s.status = 200 THEN Impure
                    ELSE UNCHANGED <<created, pure>>

deleteUser ==
    \E p \in PathParams :
        \E rq \in {Request("deleteUser", p, NoBody)}, f \in {First(users, p)} :
            IF f.err
            THEN Served(rq, Response(404, ZeroUser, <<>>)) /\ Reads
            ELSE \E d \in {Delete(users, f.user)} :
                 /\ Served(rq, Response(200, ZeroUser, <<>>))
                 /\ users' = d.users
                 /\ seq' = seq
                 /\ Impure

Next == getUsers \/ getUser \/ createUser \/ updateUser \/ deleteUser

Spec == Init /\ [][Next]_vars

----------------------------------------------------------------------------
(* Properties of the handlers served one at a time *)

Key(r) == Atoi(r.id)

OnExisting(r, t) == IsNum(r.id) /\ HasId(t, Key(r))

OthersUntouched(t, tt, k) ==
    /\ \A r \in Rows(t) : r.id # k => r \in Rows(tt)
    /\ \A r \in Rows(tt) : r.id # k => r \in Rows(t)

(* C1: a PUT on an existing id k that answers 200 has overwritten the      *)
(* record k, which keeps id k, and has created or modified no other        *)
(* record, whatever id the body carries.                                   *)
C1_PutPreservesId ==
    [][(req'.op = "updateUser" /\ OnExisting(req', users) /\ resp'.status = 200)
         => /\ resp'.user.id = Key(req')
            /\ HasId(users', Key(req'))
            /\ Lookup(users', Key(req')) = resp'.user
            /\ OthersUntouched(users, users', Key(req'))]_vars

(* C2 as stated: a field omitted from the body of a PUT that answers 200   *)
(* is empty in the response and in the stored record.                      *)
C2_PutFullReplace ==
    [][(req'.op = "updateUser" /\ OnExisting(req', users) /\ resp'.status = 200)
         => /\ "email" \notin req'.body.fields => resp'.user.email = ""
            /\ "name" \notin req'.body.fields => resp'.user.name = ""]_vars

(* C2 amended: a field omitted from the body of a PUT on an existing id k  *)
(* that answers 200 has, in the response and in the record stored under    *)
(* the id of the response, the value the record k held before the request. *)
C2_PutKeepsOmitted ==
    [][(req'.op = "updateUser" /\ OnExisting(req', users) /\ resp'.status = 200)
         => /\ "email" \notin req'.body.fields
                 => resp'.user.email = Lookup(users, Key(req')).email
            /\ "name" \notin req'.body.fields
                 => resp'.user.name = Lookup(users, Key(req')).name
            /\ HasId(users', resp'.user.id)
            /\ Lookup(users', resp'.user.id) = resp'.user]_vars

C2_Witness ==
    /\ req.op = "updateUser" /\ IsNum(req.id) /\ resp.status = 200
    /\ req.body.fields = {"name"}
    /\ resp.user.email = "x"
    /\ HasId(users, resp.user.id) /\ Lookup(users, resp.user.id).email = "x"

(* C3: the id of a record created by POST is the next value of the         *)
(* auto-increment, never the id of the body, and a body id equal to an     *)
(* existing id neither touches that record nor makes the create fail.      *)
C3_PostIgnoresBodyId ==
    [][(req'.op = "createUser" /\ req'.body.ok)
         => /\ resp'.status = 201 => resp'.user.id = seq + 1
            /\ ("id" \in req'.body.fields /\ HasId(users, req'.body.id)
                  /\ ~ \E r \in Rows(users) : r.email = req'.body.email)
                 => /\ resp'.status = 201
                    /\ Lookup(users', req'.body.id) = Lookup(users, req'.body.id)]_vars

EmailUnique(t) ==
    \A i, j \in 1..Len(t) : t[i].email = t[j].email => i = j

(* C4: emails are unique in storage, and a POST or a PUT on an existing id *)
(* whose email is the email of another stored user answers 500 and leaves  *)
(* the table unchanged.                                                    *)
C4_DuplicateEmailRejected ==
    [][/\ EmailUnique(users')
       /\ (req'.op = "createUser" /\ req'.body.ok
             /\ \E r \in Rows(users) : r.email = req'.body.email)
            => resp'.status = 500 /\ users' = users
       /\ (req'.op = "updateUser" /\ OnExisting(req', users) /\ req'.body.ok
             /\ "email" \in req'.body.fields
             /\ \E r \in Rows(users) :
                    r.id # Key(req') /\ r.email = req'.body.email)
            => resp'.status = 500 /\ users' = users]_vars

(* C5: after successful creates only, from the empty table, GET /users     *)
(* answers 200 with exactly the created records, name and email as         *)
(* created, in the order of their creation.                                *)
C5_ListReturnsCreated ==
    (req.op = "getUsers" /\ pure)
        => /\ resp.status = 200
           /\ Len(resp.users) = Len(created)
           /\ \A i \in 1..Len(created) :
                  /\ resp.users[i].name = created[i].name
                  /\ resp.users[i].email = created[i].email

C5_Witness ==
    req.op = "getUsers" /\ pure /\ Len(created) = 2 /\ Len(resp.users) = 2

(* C6: a POST that answers 201 returns the name and email of its body, and *)
(* a GET on the returned id issued next answers 200 with the same record.  *)
C6_CreateReadRoundTrip ==
    /\ (req.op = "createUser" /\ resp.status = 201)
         => /\ resp.user.name = req.body.name
            /\ resp.user.email = req.body.email
    /\ (prev.op = "createUser" /\ req.op = "getUser"
          /\ req.id = Itoa(prev.user.id))
         => resp.status = 200 /\ resp.user = prev.user

C6_Witness ==
    /\ prev.op = "createUser" /\ req.op = "getUser"
    /\ req.id = Itoa(prev.user.id)
    /\ resp.status = 200 /\ resp.user.name = "a" /\ resp.user.email = "x"
    /\ Len(users) = 2

(* C7: a DELETE on an existing id k that answers 200 leaves no record with *)
(* id k and every other record as it was, and a GET on k issued next       *)
(* answers 404.                                                            *)
C7_DeleteRemovesExactlyOne ==
    [][/\ (req'.op = "deleteUser" /\ OnExisting(req', users)
             /\ resp'.status = 200)
            => /\ ~HasId(users', Key(req'))
               /\ Len(users') = Len(users) - 1
               /\ OthersUntouched(users, users', Key(req'))
       /\ (prev'.op = "deleteUser" /\ IsNum(prev'.id)
             /\ req'.op = "getUser" /\ req'.id = prev'.id)
            => resp'.status = 404]_vars

C7_Witness ==
    /\ prev.op = "deleteUser" /\ IsNum(prev.id)
    /\ req.op = "getUser" /\ req.id = prev.id
    /\ resp.status = 404
    /\ Len(users) = 1

(* C8: GET, PUT and DELETE on an id that no stored user has answer 404,    *)
(* for PUT whatever the body.                                              *)
C8_MissingIdIs404 ==
    [][(req'.op \in {"getUser", "updateUser", "deleteUser"}
          /\ ~OnExisting(req', users))
         => resp'.status = 404]_vars

(* C10: a request answered 400, 404 or 500, and every GET, leaves the      *)
(* table as it was.                                                        *)
C10_ErrorsAndReadsKeepTable ==
    [][(resp'.status \in {400, 404, 500}
          \/ req'.op \in {"getUsers", "getUser"})
         => users' = users]_vars

C10_Witness ==
    /\ req.op = "updateUser" /\ resp.status = 500 /\ Len(users) = 2

----------------------------------------------------------------------------
(* Two requests in flight.  createUser is one statement; updateUser and    *)
(* deleteUser are a fetch and a write, each its own statement, with no     *)
(* transaction around the pair.                                            *)

Workers == {1, 2}

ConcParams == {Itoa(n) : n \in 1..MaxId}

ConcBodies == {b \in Bodies : b.ok /\ "id" \notin b.fields}

Free(w) == inflight[w].pc \in {"idle", "done"}

Fetched(w, op) == inflight[w].pc = "fetched" /\ inflight[w].op = op

Done(op, p, status, u, stale) ==
    [pc |-> "done", op |-> op, id |-> p, body |-> NoBody, user |-> u,
     status |-> status, stale |-> stale]

Sequential == UNCHANGED <<req, resp, prev, created, pure>>

Create1(w) ==
    /\ Free(w)
    /\ \E b \in ConcBodies :
         \E c \in {Create(users, seq, BindJSON(b, ZeroUser))} :
             /\ c.seq <= MaxSeq
             /\ seq' = c.seq
             /\ users' = c.users
             /\ inflight' = [inflight EXCEPT ![w] =
                    Done("createUser", "", IF c.err THEN 500 ELSE 201,
                         IF c.err THEN ZeroUser ELSE c.user, FALSE)]
    /\ Sequential

Fetch(w, op) ==
    /\ Free(w)
    /\ \E p \in ConcParams, b \in IF op = "updateUser" THEN ConcBodies ELSE {NoBody} :
         \E f \in {First(users, p)} :
             inflight' = [inflight EXCEPT ![w] =
                 IF f.err THEN Done(op, p, 404, ZeroUser, FALSE)
                 ELSE [pc |-> "fetched", op |-> op, id |-> p, body |-> b,
                       user |-> f.user, status |-> 0, stale |-> FALSE]]
    /\ UNCHANGED <<users, seq>>
    /\ Sequential

PutFetch(w) == Fetch(w, "updateUser")

DeleteFetch(w) == Fetch(w, "deleteUser")

PutWrite(w) ==
    /\ Fetched(w, "updateUser")
    /\ \E me \in {inflight[w]} :
         \E s \in {BindAndSave(users, seq, me.body, me.user)} :
             /\ s.seq <= MaxSeq
             /\ seq' = s.seq
             /\ users' = s.users
             /\ inflight' = [inflight EXCEPT ![w] =
                    Done(me.op, me.id, s.status, s.user,
                         me.user \notin Rows(users))]
    /\ Sequential

DeleteWrite(w) ==
    /\ Fetched(w, "deleteUser")
    /\ \E me \in {inflight[w]} :
         \E d \in {Delete(users, me.user)} :
             /\ users' = d.users
             /\ inflight' = [inflight EXCEPT ![w] =
                    Done(me.op, me.id, 200, ZeroUser,
                         me.user \notin Rows(users))]
    /\ UNCHANGED seq
    /\ Sequential

ConcNext ==
    \E w \in Workers :
        Create1(w) \/ PutFetch(w) \/ PutWrite(w) \/ DeleteFetch(w) \/ DeleteWrite(w)

ConcSpec == Init /\ [][ConcNext]_vars

(* C9: the write of a PUT runs against the record its own fetch returned,  *)
(* without a second look at the table: it answers 200 or 500 and the       *)
(* record it stores is the body bound onto the fetched record, also when   *)
(* another request has deleted or rewritten the row since the fetch.       *)
C9_WriteAgainstStaleFetch ==
    [][\A w \in Workers :
         (Fetched(w, "updateUser") /\ inflight'[w].pc = "done")
           => /\ inflight'[w].status \in {200, 500}
              /\ inflight'[w].status = 200
                   => /\ inflight'[w].user = BindJSON(inflight[w].body, inflight[w].user)
                      /\ inflight'[w].user \in Rows(users')]_vars

C9_Witness ==
    \E w, v \in Workers :
        /\ w # v
        /\ inflight[w].pc = "done" /\ inflight[w].op = "updateUser"
        /\ inflight[w].status = 200 /\ inflight[w].stale
        /\ inflight[v].pc = "done" /\ inflight[v].op = "deleteUser"
        /\ inflight[v].status = 200 /\ inflight[v].id = inflight[w].id
        /\ ~inflight[v].stale
        /\ HasId(users, Atoi(inflight[w].id))

====
